---- MODULE Spec2Model ----
(***************************************************************************)
(* Model of the crawler worker: company discovery (scraper.py              *)
(* crawl_companies), page fetching (safe_fetch), the extraction of         *)
(* enrich_company, the LinkedIn lookups (linkedin_fallback.py), the job    *)
(* loop (main.py start_crawler) and the health server thread.              *)
(*                                                                         *)
(* Text is modelled as a sequence of tokens: a Python str is a sequence of *)
(* strings, each token standing for a run of characters that the code      *)
(* never splits ("https://", "roofco.nl", "/", "blog", ".pdf", "?", ...).  *)
(* The empty str is <<>> and Python's None is the one-token value None.    *)
(***************************************************************************)
EXTENDS Integers, Sequences, FiniteSets, TLC

VARIABLES
    \* ---- crawl_companies (scraper.py) ----
    cpc,          \* position: "entry", "loop", "items", "returned", "raised"
    api_key,      \* os.getenv("GOOGLE_API_KEY")
    cse_id,       \* os.getenv("GOOGLE_CSE_ID")
    limit,        \* parameter limit
    qi,           \* index of the current query in variations (outer loop)
    start,        \* current start offset (inner loop)
    pending,      \* items of the current page the item loop has not reached yet
    lastItem,     \* the item the item loop handled last
    companies,    \* list of accepted candidates
    seen_urls,    \* set of accepted links
    result,       \* the returned list, once cpc = "returned"
    requests,     \* history: the <<query index, start>> of every request issued
    lastResp,     \* history: what the last request got
    \* ---- safe_fetch (scraper.py) ----
    fpc,          \* position: "attempt", "returned"
    furl,         \* parameter url
    attempt,      \* the loop variable of "for attempt in range(retries)"
    fres,         \* the returned value, once fpc = "returned"
    flog,         \* history: status, body and sleep of every attempt made
    \* ---- search_linkedin_management (linkedin_fallback.py) ----
    mpc,          \* position: "entry", "query", "items", "consolidate", "returned", "raised"
    menv,         \* os.getenv of GOOGLE_API_KEY and GOOGLE_CSE_ID
    roles,        \* parameter roles
    attempts,     \* parameter attempts
    ri,           \* index in roles of the current role
    mattempt,     \* the loop variable of "for attempt in range(attempts)"
    mpending,     \* items of data["items"] the item loop has not reached yet
    results,      \* list of accepted results
    mseen,        \* the set seen_urls
    team,         \* the returned management_team, once mpc = "returned"
    mqueries,     \* history: the queries of the current role (attempt, items, sleep)
    offers,       \* history: <<role, canonical URL>> of every LinkedIn result received
    \* ---- search_linkedin_company (linkedin_fallback.py) ----
    kpc,          \* position: "query", "scan", "returned", "raised"
    kname,        \* parameter company_name
    kenv,         \* os.getenv of GOOGLE_API_KEY and GOOGLE_CSE_ID
    kpending,     \* items of data["items"] the loop has not reached yet
    kres,         \* the returned pair, once kpc = "returned"
    kresp,        \* history: what the search request got
    kdata,        \* data, the wrapper _query_google_cse returned
    kscanned,     \* history: the items the loop has handled, in order
    \* ---- start_crawler (main.py) ----
    wpc,          \* position: "poll", "discover", "save_raw", "enrich", "linkedin",
                  \* "save_done", "crashed"
    data,         \* the payload of the job at hand
    wcompanies,   \* companies, the list crawl_companies returned
    widx,         \* index in companies of the candidate at hand
    site_info,    \* site_info of the candidate at hand
    enriched,     \* the list enriched
    store,        \* the document of the job at hand in the collection searches
    \* ---- enrich_company (scraper.py) ----
    xpc,          \* position: "fetch", "emails", "scan", "phones", "blocks", "name",
                  \* "lookup", "returned"
    page,         \* the input: url, what safe_fetch gave, the content of the page and
                  \* what search_linkedin_company answers for it
    xemails,      \* emails
    xpos,         \* where in the text findall looks for the next phone match
    raw_phones,   \* raw_phones, as far as findall has got
    xphones,      \* phones
    xbi,          \* index of the ld+json block the loop is at
    xname,        \* company_name
    xaddress,     \* address
    xout,         \* the returned record, once xpc = "returned"
    xrun,         \* history: 1 for the first extraction of the page, 2 for the second
    xprev,        \* history: the record the first extraction returned
    \* ---- the health server thread (main.py) ----
    hsrv,         \* "idle", "starting", "serving", "failed" (the thread died), "killed"
                  \* (the process exited)
    hbound,       \* history: the server got as far as serve_forever
    hsent,        \* history: how many GET requests clients have sent
    hpending,     \* GET requests the server has accepted and not yet handled
    hanswered     \* history: the responses do_GET has sent

crawlVars == <<cpc, api_key, cse_id, limit, qi, start, pending, lastItem,
               companies, seen_urls, result, requests, lastResp>>

fetchVars == <<fpc, furl, attempt, fres, flog>>

mgmtVars == <<mpc, menv, roles, attempts, ri, mattempt, mpending, results, mseen,
              team, mqueries, offers>>

compVars == <<kpc, kname, kenv, kpending, kres, kresp, kdata, kscanned>>

workVars == <<wpc, data, wcompanies, widx, site_info, enriched, store>>

extractVars == <<xpc, page, xemails, xpos, raw_phones, xphones, xbi, xname, xaddress,
                 xout, xrun, xprev>>

healthVars == <<hsrv, hbound, hsent, hpending, hanswered>>

vars == <<crawlVars, fetchVars, mgmtVars, compVars, workVars, extractVars, healthVars>>

\* what the steps of one function leave alone: the state of the others
notCrawl == <<fetchVars, mgmtVars, compVars, workVars, extractVars, healthVars>>
notFetch == <<crawlVars, mgmtVars, compVars, workVars, extractVars, healthVars>>
notMgmt  == <<crawlVars, fetchVars, compVars, workVars, extractVars, healthVars>>
notComp  == <<crawlVars, fetchVars, mgmtVars, workVars, extractVars, healthVars>>
notWork  == <<crawlVars, fetchVars, mgmtVars, compVars, extractVars, healthVars>>
notExtract == <<crawlVars, fetchVars, mgmtVars, compVars, workVars, healthVars>>
notHealth == <<crawlVars, fetchVars, mgmtVars, compVars, workVars, extractVars>>

----------------------------------------------------------------------------
(* Bounds of the model *)

MaxCompanies  == 2   \* candidates one discovery returns (main.py asks for 80)
MaxCompItems  == 3   \* items in the response to the company-page query (num = 3)
NumRoles      == 2   \* how many of the 11 default roles are queried
MaxAttempts   == 2   \* largest value of the parameter attempts (the default is 1)
MaxRoleItems  == 2   \* items in one response to a role query (the code asks for num = 3)
NumVariations == 2   \* how many of the 30 query variations are run
NumPages      == 2   \* pages per variation (the code: max_api_limit / per_page = 10)
MaxPageItems  == 2   \* items in one search response (the code asks for num = 10)
MaxLimit      == 3   \* largest target count (main.py passes 80)
MaxTextPieces == 3   \* phone-like strings in the text of one page
MaxBlocks     == 2   \* application/ld+json blocks of one page
MaxGets       == 2   \* GET requests clients send to the health server

----------------------------------------------------------------------------
(* Python values and str operations on token sequences *)

None == <<"None">>

\* Python truthiness of a str-or-None value
Truthy(x) == x # None /\ x # <<>>

\* s.endswith(suffix)
EndsWith(s, suffix) ==
    /\ Len(suffix) <= Len(s)
    /\ SubSeq(s, Len(s) - Len(suffix) + 1, Len(s)) = suffix

\* sub in s, for a sub made of whole tokens
IsInfix(sub, s) ==
    \E i \in 1..(Len(s) - Len(sub) + 1) : SubSeq(s, i, i + Len(sub) - 1) = sub

\* index of the first token of s that is in stops, Len(s) + 1 when there is none
RECURSIVE FirstIn(_, _, _)
FirstIn(s, stops, i) ==
    IF i > Len(s) THEN Len(s) + 1
    ELSE IF s[i] \in stops THEN i
    ELSE FirstIn(s, stops, i + 1)

\* s.split(sep)[0]
SplitFirst(s, sep) == SubSeq(s, 1, FirstIn(s, {sep}, 1) - 1)

\* str.lower() of one token; tokens not listed have no upper-case letter
LowerToken(t) ==
    CASE t = "NLTimes.nl" -> "nltimes.nl"
      [] t = "Blog"       -> "blog"
      [] OTHER            -> t

Lower(s) == [i \in 1..Len(s) |-> LowerToken(s[i])]

----------------------------------------------------------------------------
(* urllib.parse.urlparse, the two components the code reads *)

\* netloc: what follows "scheme://" up to the first "/", "?" or "#"
UrlNetloc(link) ==
    IF Len(link) > 0 /\ link[1] = "https://"
    THEN SubSeq(link, 2, FirstIn(link, {"/", "?", "#"}, 2) - 1)
    ELSE <<>>

\* path: from the end of the netloc up to the first "?" or "#"
UrlPath(link) ==
    LET from == IF Len(link) > 0 /\ link[1] = "https://"
                THEN FirstIn(link, {"/", "?", "#"}, 2)
                ELSE 1
    IN  SubSeq(link, from, FirstIn(link, {"?", "#"}, from) - 1)

\* hostname of a netloc: without userinfo ("user", "@") and port (":8080")
UrlHostname(link) ==
    LET n    == UrlNetloc(link)
        at   == FirstIn(n, {"@"}, 1)
        h    == IF at <= Len(n) THEN SubSeq(n, at + 1, Len(n)) ELSE n
    IN  SelectSeq(h, LAMBDA t : t # ":8080")

----------------------------------------------------------------------------
(* scraper.py: module constants *)

EXCLUDED_PATHS ==
    {"blog", "news", "press", "article", "stories",
     "nieuws", "pers", "artikel", "verhalen"}

EXCLUDED_DOMAINS == { <<"nltimes.nl">> }

EXCLUDED_EXTENSIONS == {".pdf", ".doc", ".docx", ".xls", ".xlsx", ".ppt", ".pptx"}

\* p in t, for one token t: the excluded words that are substrings of t
WordsIn(t) ==
    CASE t \in EXCLUDED_PATHS -> {t}
      [] t = "nieuwsbrief"    -> {"nieuws"}
      [] OTHER                -> {}

\* any(p in path for p in EXCLUDED_PATHS)
PathExcluded(path) == \E i \in 1..Len(path) : WordsIn(path[i]) # {}

\* any(ext for ext in EXCLUDED_EXTENSIONS if link.endswith(ext))
ExtExcluded(link) == \E ext \in EXCLUDED_EXTENSIONS : EndsWith(link, <<ext>>)

\* any(domain.endswith(d) for d in EXCLUDED_DOMAINS)
DomainExcluded(domain) == \E d \in EXCLUDED_DOMAINS : EndsWith(domain, d)

\* the filter of crawl_companies: True when the item is skipped
Excluded(link) ==
    LET domain == Lower(UrlNetloc(link))
        path   == Lower(UrlPath(link))
    IN  \/ ExtExcluded(link)
        \/ PathExcluded(path)
        \/ DomainExcluded(domain)

----------------------------------------------------------------------------
(* clean_company_name *)

\* the separators of re.split(r"\s[-|(en dash):]\s"); " -- " stands for the en dash
TitleSeparators == {" - ", " | ", " -- ", " : "}

\* index of the last separator token of s, 0 when there is none
RECURSIVE LastSep(_, _)
LastSep(s, i) ==
    IF i = 0 THEN 0
    ELSE IF s[i] \in TitleSeparators THEN i
    ELSE LastSep(s, i - 1)

clean_company_name(title) ==
    IF ~Truthy(title) THEN None
    ELSE SubSeq(title, LastSep(title, Len(title)) + 1, Len(title))

----------------------------------------------------------------------------
(* The search API: what a response can hold *)

\* links a search result can carry
LinkContact    == <<"https://", "dakbedrijf.nl", "/", "contact">>
LinkHome       == <<"https://", "roofco.nl", "/">>
LinkBlog       == <<"https://", "roofco.nl", "/", "Blog", "/", "dak">>
LinkPdf        == <<"https://", "roofco.nl", "/", "brochure", ".pdf">>
LinkNews       == <<"https://", "www.", "NLTimes.nl", "/", "roofing">>
LinkNewsPort   == <<"https://", "nltimes.nl", ":8080", "/", "roofing">>
LinkNewsletter == <<"https://", "dakbedrijf.nl", "/", "nieuwsbrief">>

SearchLinks ==
    {LinkContact, LinkHome, LinkBlog, LinkPdf, LinkNews, LinkNewsPort,
     LinkNewsletter}

TitleFor(link) ==
    CASE link = LinkContact  -> <<"Contact", " - ", "Dakbedrijf">>
      [] link = LinkHome     -> <<"RoofCo">>
      [] link = LinkNewsPort -> None
      [] OTHER               -> <<"Dakdekkers", " | ", "Nederland">>

\* one item of a response; a key the item lacks holds None
SearchItem(link) ==
    [link |-> link, title |-> TitleFor(link), snippet |-> <<"dakdekker">>]

SearchItems == {SearchItem(l) : l \in SearchLinks} \cup
               {[link |-> None, title |-> <<"RoofCo">>, snippet |-> None]}

\* dict.get(key, default) of a key that may be absent
Get(value, default) == IF value = None THEN default ELSE value

----------------------------------------------------------------------------
(* crawl_companies *)

\* the first queries of the list of variations, in list order
AllVariations ==
    <<"dakdekkers bedrijf Nederland", "dakbedekking aannemers Nederland",
      "dak installatie bedrijven Nederland", "dakdekkers Amsterdam",
      "dakdekkers Rotterdam", "dakdekkers Utrecht">>

variations == SubSeq(AllVariations, 1, NumVariations)

per_page == 10

max_api_limit == per_page * NumPages

\* AcceptItem without the seen_urls test
AcceptItemNoSeenTest(acc, item) ==
    LET link == Get(item.link, <<>>)
    IN  IF Excluded(link) THEN acc
        ELSE IF Truthy(link)
        THEN [list |-> Append(acc.list,
                              [url     |-> link,
                               title   |-> clean_company_name(item.title),
                               snippet |-> item.snippet]),
              seen |-> acc.seen \cup {link}]
        ELSE acc

\* the body of "for item in data.get('items', [])" for one item
AcceptItem(acc, item) ==
    LET link == Get(item.link, <<>>)
    IN  IF Excluded(link) THEN acc
        ELSE IF Truthy(link) /\ link \notin acc.seen
        THEN [list |-> Append(acc.list,
                              [url     |-> link,
                               title   |-> clean_company_name(item.title),
                               snippet |-> item.snippet]),
              seen |-> acc.seen \cup {link}]
        ELSE acc

\* NextVariation when a break leaves both loops
NextVariationEndsRun(q) == [cpc |-> "returned", qi |-> q, start |-> 1]

\* "break" of the page loop, and the end of the page loop: the next variation,
\* or the final return when the variations are exhausted
NextVariation(q) ==
    IF q < Len(variations)
    THEN [cpc |-> "loop", qi |-> q + 1, start |-> 1]
    ELSE [cpc |-> "returned", qi |-> q, start |-> 1]

\* NextPage when "continue" asks for the same page again
NextPageAgain(q, s) == [cpc |-> "loop", qi |-> q, start |-> s]

\* "continue" of the page loop: the next value of range(1, max_api_limit + 1, per_page)
NextPage(q, s) ==
    IF s + per_page <= max_api_limit
    THEN [cpc |-> "loop", qi |-> q, start |-> s + per_page]
    ELSE NextVariation(q)

\* move to a position of the loops; "return companies" on leaving them, list
\* being the value of companies then
Goto(pos, list) ==
    /\ cpc' = pos.cpc
    /\ qi' = pos.qi
    /\ start' = pos.start
    /\ result' = IF pos.cpc = "returned" THEN list ELSE result

\* TargetReached with the target tested one candidate late
TargetReachedLate(list, lim) == Len(list) > lim

\* line 164: len(companies) >= limit
TargetReached(list, lim) == Len(list) >= lim

EnvValues == {None, <<>>, <<"secret">>}

NoItem == [link |-> None, title |-> None, snippet |-> None]

NoResp == [kind |-> "none", status |-> 0, error |-> FALSE, nitems |-> 0]

CrawlInit ==
    /\ cpc = "entry"
    /\ api_key \in EnvValues
    /\ cse_id \in EnvValues
    /\ limit \in 1..MaxLimit
    /\ qi = 0
    /\ start = 0
    /\ pending = 0
    /\ lastItem = NoItem
    /\ companies = <<>>
    /\ seen_urls = {}
    /\ result = <<>>
    /\ requests = <<>>
    /\ lastResp = NoResp

\* lines 70-74: a missing key or engine id raises ValueError
CrawlMissingEnv ==
    /\ cpc = "entry"
    /\ ~Truthy(api_key) \/ ~Truthy(cse_id)
    /\ cpc' = "raised"
    /\ UNCHANGED notCrawl
    /\ UNCHANGED <<api_key, cse_id, limit, qi, start, pending, lastItem, companies,
                   seen_urls, result, requests, lastResp>>

\* lines 118-124: the first query, start = 1
CrawlBegin ==
    /\ cpc = "entry"
    /\ Truthy(api_key) /\ Truthy(cse_id)
    /\ Goto([cpc |-> "loop", qi |-> 1, start |-> 1], companies)
    /\ UNCHANGED notCrawl
    /\ UNCHANGED <<api_key, cse_id, limit, pending, lastItem, companies, seen_urls,
                   requests, lastResp>>

\* lines 132-138: requests.get or res.json() raises RequestException: continue
CrawlRequestFails ==
    /\ cpc = "loop"
    /\ requests' = Append(requests, <<qi, start>>)
    /\ lastResp' = [kind |-> "exception", status |-> 0, error |-> FALSE, nitems |-> 0]
    /\ Goto(NextPage(qi, start), companies)
    /\ UNCHANGED notCrawl
    /\ UNCHANGED <<api_key, cse_id, limit, pending, lastItem, companies, seen_urls>>

\* lines 132-141: a body without items (an empty page, or an error body that
\* comes with status 403 or 429): break
CrawlNoItems ==
    /\ cpc = "loop"
    /\ \E status \in {200, 403, 429}, error \in BOOLEAN :
          /\ status # 200 => error
          /\ lastResp' = [kind |-> "body", status |-> status, error |-> error,
                          nitems |-> 0]
    /\ requests' = Append(requests, <<qi, start>>)
    /\ Goto(NextVariation(qi), companies)
    /\ UNCHANGED notCrawl
    /\ UNCHANGED <<api_key, cse_id, limit, pending, lastItem, companies, seen_urls>>

\* lines 132-143: a body with items: enter the item loop
CrawlPage ==
    /\ cpc = "loop"
    /\ \E n \in 1..MaxPageItems :
          /\ lastResp' = [kind |-> "body", status |-> 200, error |-> FALSE,
                          nitems |-> n]
          /\ pending' = n
    /\ requests' = Append(requests, <<qi, start>>)
    /\ cpc' = "items"
    /\ UNCHANGED notCrawl
    /\ UNCHANGED <<api_key, cse_id, limit, qi, start, lastItem, companies, seen_urls,
                   result>>

\* lines 143-162: one turn of the item loop, on the next item of the page
CrawlItem ==
    /\ cpc = "items"
    /\ pending > 0
    /\ \E item \in SearchItems :
          LET acc == AcceptItem([list |-> companies, seen |-> seen_urls], item)
          IN  /\ companies' = acc.list
              /\ seen_urls' = acc.seen
              /\ lastItem' = item
    /\ pending' = pending - 1
    /\ UNCHANGED notCrawl
    /\ UNCHANGED <<cpc, api_key, cse_id, limit, qi, start, result, requests, lastResp>>

\* lines 164-165: after the item loop, return at the target or take the next page
CrawlPageDone ==
    /\ cpc = "items"
    /\ pending = 0
    /\ IF TargetReached(companies, limit)
       THEN Goto([cpc |-> "returned", qi |-> qi, start |-> start], companies)
       ELSE Goto(NextPage(qi, start), companies)
    /\ UNCHANGED notCrawl
    /\ UNCHANGED <<api_key, cse_id, limit, pending, lastItem, companies, seen_urls,
                   requests, lastResp>>

CrawlNext ==
    \/ CrawlMissingEnv
    \/ CrawlBegin
    \/ CrawlRequestFails
    \/ CrawlNoItems
    \/ CrawlPage
    \/ CrawlItem
    \/ CrawlPageDone

\* the state of crawl_companies while another function is the one under study
CrawlIdle ==
    /\ cpc = "idle"
    /\ api_key = None
    /\ cse_id = None
    /\ limit = 0
    /\ qi = 0
    /\ start = 0
    /\ pending = 0
    /\ lastItem = NoItem
    /\ companies = <<>>
    /\ seen_urls = {}
    /\ result = <<>>
    /\ requests = <<>>
    /\ lastResp = NoResp

----------------------------------------------------------------------------
(* safe_fetch *)

retries == 3

delay == 2

\* statuses a GET can come back with
HttpStatuses == {200, 204, 404, 500}

\* page contents; <<>> is the empty page
FetchBodies == {<<>>, <<"<html>", "RoofCo", "</html>">>}

FetchUrls == {LinkContact, LinkBlog}

\* Success that takes every 2xx status
SuccessAny2xx(status) == status \in 200..299

\* line 58: res.status_code == 200
Success(status) == status = 200

FetchInit ==
    /\ fpc = "attempt"
    /\ furl \in FetchUrls
    /\ attempt = 0
    /\ fres = None
    /\ flog = <<>>

FetchIdle ==
    /\ fpc = "idle"
    /\ furl = <<>>
    /\ attempt = 0
    /\ fres = None
    /\ flog = <<>>

\* lines 52-59: an attempt gets a success status: return res.text
FetchOk ==
    /\ fpc = "attempt"
    /\ attempt < retries
    /\ \E status \in HttpStatuses, body \in FetchBodies :
          /\ Success(status)
          /\ flog' = Append(flog, [status |-> status, body |-> body, slept |-> 0])
          /\ fres' = body
    /\ fpc' = "returned"
    /\ UNCHANGED <<furl, attempt>>
    /\ UNCHANGED notFetch

\* lines 52-61: an attempt gets another status: report it, next attempt at once
FetchBadStatus ==
    /\ fpc = "attempt"
    /\ attempt < retries
    /\ \E status \in HttpStatuses, body \in FetchBodies :
          /\ ~Success(status)
          /\ flog' = Append(flog, [status |-> status, body |-> body, slept |-> 0])
    /\ attempt' = attempt + 1
    /\ UNCHANGED <<fpc, furl, fres>>
    /\ UNCHANGED notFetch

\* lines 62-64: requests.get raises RequestException: report it, sleep(delay),
\* next attempt
FetchException ==
    /\ fpc = "attempt"
    /\ attempt < retries
    /\ flog' = Append(flog, [status |-> 0, body |-> <<>>, slept |-> delay])
    /\ attempt' = attempt + 1
    /\ UNCHANGED <<fpc, furl, fres>>
    /\ UNCHANGED notFetch

\* lines 65-66: the loop ran out: return None
FetchGiveUp ==
    /\ fpc = "attempt"
    /\ attempt = retries
    /\ fres' = None
    /\ fpc' = "returned"
    /\ UNCHANGED <<furl, attempt, flog>>
    /\ UNCHANGED notFetch

FetchNext ==
    \/ FetchOk
    \/ FetchBadStatus
    \/ FetchException
    \/ FetchGiveUp

----------------------------------------------------------------------------
(* linkedin_fallback.py: helpers *)

\* urllib.parse.unquote of one token
UnquoteToken(t) ==
    CASE t = "%3F" -> "?"
      [] t = "%26" -> "&"
      [] OTHER     -> t

unquote(s) == [i \in 1..Len(s) |-> UnquoteToken(s[i])]

_normalize_linkedin_url(url) ==
    IF ~Truthy(url) THEN url
    ELSE unquote(SplitFirst(url, "&"))

_extract_name_from_title(title) ==
    IF ~Truthy(title) THEN None
    ELSE IF IsInfix(<<" - ">>, title) THEN SplitFirst(title, " - ")
    ELSE IF IsInfix(<<"|">>, title) THEN SplitFirst(title, "|")
    ELSE None

\* a or b, of two str-or-None values
Or(a, b) == IF Truthy(a) THEN a ELSE b

\* CanonicalKey that keeps the query string
CanonicalKeyWholeLink(link) == link

\* lines 100 and 122: link.split("?")[0]
CanonicalKey(link) == SplitFirst(link, "?")

\* what requests.get and r.json() can do in _query_google_cse: raise, or give a
\* status and a body; the body parses to a dict or not, and the dict has
\* nitems items and may have an error field. A status other than 200 comes
\* with an error body.
RawResponses(maxItems) ==
    {[kind |-> "exception", status |-> 0, json |-> FALSE, nitems |-> 0, error |-> FALSE]}
    \cup {[kind |-> "http", status |-> st, json |-> TRUE, nitems |-> 0, error |-> TRUE] :
             st \in {400, 403, 429}}
    \cup {[kind |-> "http", status |-> 200, json |-> FALSE, nitems |-> 0, error |-> FALSE]}
    \cup {[kind |-> "http", status |-> 200, json |-> TRUE, nitems |-> n, error |-> e] :
             n \in 0..maxItems, e \in BOOLEAN}

\* the wrapper {items, error} that _query_google_cse returns for a response:
\* the number of its items, and whether its error is not None
_query_google_cse(raw) ==
    IF raw.kind = "exception" THEN [nitems |-> 0, error |-> TRUE]
    ELSE IF raw.status # 200 THEN [nitems |-> 0, error |-> TRUE]
    ELSE IF ~raw.json THEN [nitems |-> 0, error |-> TRUE]
    ELSE [nitems |-> raw.nitems, error |-> raw.error]

----------------------------------------------------------------------------
(* The search API, as the LinkedIn lookups see it *)

ProfileJane    == <<"https://", "www.", "linkedin.com", "/in", "/", "jane">>
ProfileJaneTrk == ProfileJane \o <<"?", "trk=public">>
ProfileJaneAmp == ProfileJane \o <<"&", "sa=U">>
ProfilePietEnc == <<"https://", "nl.", "linkedin.com", "/in", "/", "piet", "%3F", "trk=x">>
TeamPage       == <<"https://", "roofco.nl", "/", "team">>

\* items of a response to a role query; a key the item lacks holds None
RoleItems ==
    { [link |-> ProfileJane, formattedUrl |-> None,
       title |-> <<"Jane Doe", " - ", "CEO at RoofCo", "|", "LinkedIn">>,
       snippet |-> <<"CEO at RoofCo">>],
      [link |-> ProfileJaneTrk, formattedUrl |-> ProfileJane,
       title |-> <<"J. Doe", "|", "LinkedIn">>, snippet |-> None],
      [link |-> ProfileJaneAmp, formattedUrl |-> None,
       title |-> None, snippet |-> <<"Founder">>],
      [link |-> None, formattedUrl |-> ProfilePietEnc,
       title |-> <<"RoofCo team">>, snippet |-> <<"Piet">>],
      [link |-> TeamPage, formattedUrl |-> None,
       title |-> <<"Team", " - ", "RoofCo">>, snippet |-> None],
      [link |-> None, formattedUrl |-> None, title |-> None, snippet |-> None] }

----------------------------------------------------------------------------
(* search_linkedin_management *)

company_name == "RoofCo"

region == "Netherlands"

DefaultRoles ==
    <<"CEO", "Chief Executive Officer", "Founder", "Managing Director",
      "COO", "CFO", "CTO", "Director", "Head of", "Chair", "President">>

\* the values of the parameter roles: the start of the default list, and the
\* pair of roles of the consolidation example
RoleLists == {SubSeq(DefaultRoles, 1, NumRoles), <<"CEO", "Founder">>}

\* line 86: the query of one role
RoleQuery(role) == <<"site:linkedin.com", company_name, role, region>>

\* one turn of "for it in data.get('items', [])": st holds results and seen_urls
TakeResult(st, it, role) ==
    LET link == _normalize_linkedin_url(Or(Get(it.link, None),
                                           Or(Get(it.formattedUrl, None), <<>>)))
        key  == CanonicalKey(link)
    IN  IF ~IsInfix(<<"linkedin.com">>, link) THEN st
        ELSE IF key \in st.seen THEN st
        ELSE [seen |-> st.seen \cup {key},
              list |-> Append(st.list,
                              [name         |-> _extract_name_from_title(Get(it.title, <<>>)),
                               title        |-> role,
                               linkedin_url |-> link,
                               snippet      |-> Get(it.snippet, <<>>),
                               source_query |-> RoleQuery(role)])]

\* position of key in the keys of the dict consolidated, 0 when it is not in it
RECURSIVE KeyIndex(_, _, _)
KeyIndex(keys, key, i) ==
    IF i > Len(keys) THEN 0
    ELSE IF keys[i] = key THEN i
    ELSE KeyIndex(keys, key, i + 1)

\* lines 121-135: one turn of the consolidation loop; the dict consolidated is
\* its keys and its values, both in insertion order
ConsolidateOne(cons, r) ==
    LET key == CanonicalKey(r.linkedin_url)
        at  == KeyIndex(cons.keys, key, 1)
    IN  IF at = 0
        THEN [keys |-> Append(cons.keys, key),
              vals |-> Append(cons.vals,
                              [name           |-> r.name,
                               linkedin_url   |-> r.linkedin_url,
                               snippet        |-> r.snippet,
                               roles_found    |-> <<r.title>>,
                               source_queries |-> <<r.source_query>>])]
        ELSE LET old == cons.vals[at]
                 new == [old EXCEPT
                           !.roles_found    = Append(@, r.title),
                           !.source_queries = Append(@, r.source_query),
                           !.name = IF ~Truthy(@) /\ Truthy(r.name)
                                    THEN r.name ELSE @]
             IN  [cons EXCEPT !.vals[at] = new]

RECURSIVE ConsolidateFrom(_, _)
ConsolidateFrom(cons, rs) ==
    IF rs = <<>> THEN cons
    ELSE ConsolidateFrom(ConsolidateOne(cons, Head(rs)), Tail(rs))

\* lines 119-140: list(consolidated.values())
Consolidate(rs) == ConsolidateFrom([keys |-> <<>>, vals |-> <<>>], rs).vals

MgmtInit ==
    /\ mpc = "entry"
    /\ menv \in {[key |-> <<"secret">>, cx |-> <<"engine">>],
                 [key |-> None, cx |-> <<"engine">>],
                 [key |-> <<"secret">>, cx |-> <<>>]}
    /\ roles \in RoleLists
    /\ attempts \in 1..MaxAttempts
    /\ ri = 0
    /\ mattempt = 0
    /\ mpending = 0
    /\ results = <<>>
    /\ mseen = {}
    /\ team = <<>>
    /\ mqueries = <<>>
    /\ offers = {}

MgmtIdle ==
    /\ mpc = "idle"
    /\ menv = [key |-> None, cx |-> None]
    /\ roles = <<>>
    /\ attempts = 0
    /\ ri = 0
    /\ mattempt = 0
    /\ mpending = 0
    /\ results = <<>>
    /\ mseen = {}
    /\ team = <<>>
    /\ mqueries = <<>>
    /\ offers = {}

\* lines 70-73: a missing key or engine id raises ValueError
MgmtMissingEnv ==
    /\ mpc = "entry"
    /\ ~Truthy(menv.key) \/ ~Truthy(menv.cx)
    /\ mpc' = "raised"
    /\ UNCHANGED <<menv, roles, attempts, ri, mattempt, mpending, results, mseen,
                   team, mqueries, offers>>
    /\ UNCHANGED notMgmt

\* lines 75-89: the first role, its first attempt
MgmtBegin ==
    /\ mpc = "entry"
    /\ Truthy(menv.key) /\ Truthy(menv.cx)
    /\ mpc' = "query"
    /\ ri' = 1
    /\ mattempt' = 0
    /\ UNCHANGED <<menv, roles, attempts, mpending, results, mseen, team, mqueries,
                   offers>>
    /\ UNCHANGED notMgmt

\* the retry loop queries again whatever the answer held
LastQueryOnLastAttempt(n, att, atts) == att >= atts - 1

\* line 91: the retry loop ends on an answer with items, or on the last attempt
LastQuery(n, att, atts) == n > 0 \/ att >= atts - 1

\* lines 89-93: one _query_google_cse call of the current role, with n items in
\* its answer (none when the call failed): on items, or on the last attempt,
\* the item loop is next; otherwise sleep(1) and the next attempt
MgmtQuery ==
    /\ mpc = "query"
    /\ \E raw \in RawResponses(MaxRoleItems) :
          LET n    == _query_google_cse(raw).nitems
              last == LastQuery(n, mattempt, attempts)
          IN  /\ mqueries' = Append(mqueries,
                                    [role |-> roles[ri], attempt |-> mattempt,
                                     nitems |-> n, slept |-> IF last THEN 0 ELSE 1])
              /\ IF last
                 THEN /\ mpc' = "items"
                      /\ mpending' = n
                      /\ UNCHANGED mattempt
                 ELSE /\ mattempt' = mattempt + 1
                      /\ UNCHANGED <<mpc, mpending>>
    /\ UNCHANGED <<menv, roles, attempts, ri, results, mseen, team, offers>>
    /\ UNCHANGED notMgmt

\* lines 95-115: one turn of the item loop, on the next item of the answer
MgmtItem ==
    /\ mpc = "items"
    /\ mpending > 0
    /\ \E it \in RoleItems :
          LET st   == TakeResult([seen |-> mseen, list |-> results], it, roles[ri])
              link == _normalize_linkedin_url(Or(Get(it.link, None),
                                                 Or(Get(it.formattedUrl, None), <<>>)))
          IN  /\ results' = st.list
              /\ mseen' = st.seen
              /\ offers' = IF IsInfix(<<"linkedin.com">>, link)
                           THEN offers \cup {<<roles[ri], SplitFirst(link, "?")>>}
                           ELSE offers
    /\ mpending' = mpending - 1
    /\ UNCHANGED <<mpc, menv, roles, attempts, ri, mattempt, team, mqueries>>
    /\ UNCHANGED notMgmt

\* lines 85-89 and 117: after the item loop sleep(sleep_between), then the next
\* role, or the consolidation after the last one
MgmtRoleDone ==
    /\ mpc = "items"
    /\ mpending = 0
    /\ IF ri < Len(roles)
       THEN /\ ri' = ri + 1
            /\ mattempt' = 0
            /\ mqueries' = <<>>
            /\ mpc' = "query"
       ELSE /\ mpc' = "consolidate"
            /\ UNCHANGED <<ri, mattempt, mqueries>>
    /\ UNCHANGED <<menv, roles, attempts, mpending, results, mseen, team, offers>>
    /\ UNCHANGED notMgmt

\* lines 119-140: consolidate the results and return
MgmtConsolidate ==
    /\ mpc = "consolidate"
    /\ team' = Consolidate(results)
    /\ mpc' = "returned"
    /\ UNCHANGED <<menv, roles, attempts, ri, mattempt, mpending, results, mseen,
                   mqueries, offers>>
    /\ UNCHANGED notMgmt

MgmtNext ==
    \/ MgmtMissingEnv
    \/ MgmtBegin
    \/ MgmtQuery
    \/ MgmtItem
    \/ MgmtRoleDone
    \/ MgmtConsolidate

----------------------------------------------------------------------------
(* search_linkedin_company *)

CompanyPage    == <<"https://", "www.", "linkedin.com", "/company", "/", "roofco">>
CompanyPageAmp == CompanyPage \o <<"&", "sa=U">>

\* items of the response to the company-page query; a key the item lacks holds None
CompanyItems ==
    { [link |-> CompanyPage, snippet |-> <<"RoofCo", "|", "51", "+", "employees">>],
      [link |-> CompanyPageAmp, snippet |-> None],
      [link |-> ProfileJane, snippet |-> <<"12345", "Employees">>],
      [link |-> None, snippet |-> <<"RoofCo">>] }

\* staff_size when the snippet has no match
NoStaff == -1

\* int(match.group(1)) for a token of digits: (\d{1,4}) takes the last four
\* digits of a longer run; NoStaff for a token that is no run of digits
DigitsValue(t) ==
    CASE t = "51"    -> 51
      [] t = "12345" -> 2345
      [] OTHER       -> NoStaff

\* re.search(r"(\d{1,4})\+?\s*employees", snippet, re.I) matches at token i
EmployeesAt(snippet, i) ==
    /\ DigitsValue(snippet[i]) # NoStaff
    /\ \/ i + 1 <= Len(snippet) /\ snippet[i + 1] \in {"employees", "Employees"}
       \/ /\ i + 2 <= Len(snippet)
          /\ snippet[i + 1] = "+"
          /\ snippet[i + 2] \in {"employees", "Employees"}

\* lines 155-158
StaffSize(snippet) ==
    LET hits == {i \in 1..Len(snippet) : EmployeesAt(snippet, i)}
    IN  IF hits = {} THEN NoStaff
        ELSE DigitsValue(snippet[CHOOSE i \in hits : \A j \in hits : i <= j])

CompInit ==
    /\ kpc = "query"
    /\ kname \in {<<"RoofCo">>, LinkHome}
    /\ kenv \in {[key |-> <<"secret">>, cx |-> <<"engine">>],
                 [key |-> None, cx |-> None]}
    /\ kpending = 0
    /\ kres = [url |-> None, staff |-> NoStaff]
    /\ kresp = [kind |-> "none", status |-> 0, json |-> FALSE, nitems |-> 0,
                error |-> FALSE]
    /\ kdata = [nitems |-> 0, error |-> FALSE]
    /\ kscanned = <<>>

CompIdle ==
    /\ kpc = "idle"
    /\ kname = <<>>
    /\ kenv = [key |-> None, cx |-> None]
    /\ kpending = 0
    /\ kres = [url |-> None, staff |-> NoStaff]
    /\ kresp = [kind |-> "none", status |-> 0, json |-> FALSE, nitems |-> 0,
                error |-> FALSE]
    /\ kdata = [nitems |-> 0, error |-> FALSE]
    /\ kscanned = <<>>

\* line 148: the query for a company name (enrich_company passes the name, or
\* the URL of the site when it found no name)
CompanyQuery(name) == <<"site:linkedin.com/company">> \o name \o <<region>>

\* lines 148-149: the one query; without credentials the API answers with an
\* error status, or the request fails
CompQuery ==
    /\ kpc = "query"
    /\ \E raw \in RawResponses(MaxCompItems) :
          /\ (~Truthy(kenv.key) \/ ~Truthy(kenv.cx)) => raw.status # 200
          /\ kresp' = raw
          /\ kdata' = _query_google_cse(raw)
          /\ kpending' = _query_google_cse(raw).nitems
    /\ kpc' = "scan"
    /\ UNCHANGED <<kname, kenv, kres, kscanned>>
    /\ UNCHANGED notComp

\* lines 151-161: one turn of the loop, on the next item: "in" on a link that
\* is None raises TypeError; a company-page link is returned with the staff
\* size of its snippet
CompItem ==
    /\ kpc = "scan"
    /\ kpending > 0
    /\ \E item \in CompanyItems :
          LET link       == _normalize_linkedin_url(item.link)
              snippet    == Get(item.snippet, <<>>)
              staff_size == StaffSize(snippet)
          IN  /\ kscanned' = Append(kscanned, item)
              /\ IF link = None
                 THEN kpc' = "raised" /\ UNCHANGED kres
                 ELSE IF IsInfix(<<"linkedin.com", "/company">>, link)
                 THEN kpc' = "returned" /\ kres' = [url |-> link, staff |-> staff_size]
                 ELSE UNCHANGED <<kpc, kres>>
    /\ kpending' = kpending - 1
    /\ UNCHANGED <<kname, kenv, kresp, kdata>>
    /\ UNCHANGED notComp

\* line 163: no item matched: return None, None
CompNoMatch ==
    /\ kpc = "scan"
    /\ kpending = 0
    /\ kres' = [url |-> None, staff |-> NoStaff]
    /\ kpc' = "returned"
    /\ UNCHANGED <<kname, kenv, kpending, kresp, kdata, kscanned>>
    /\ UNCHANGED notComp

CompNext ==
    \/ CompQuery
    \/ CompItem
    \/ CompNoMatch

----------------------------------------------------------------------------
(* enrich_company, as start_crawler sees it *)

\* the dict {}
EmptyDict == <<>>

\* lines 173-183
NoHtmlRecord(url) ==
    [url |-> url, company_name |-> None, address |-> None, emails |-> <<>>,
     phones |-> <<>>, linkedin_page |-> None, staff_size |-> NoStaff,
     raw |-> "no_html"]

\* netloc.split(".")[0].title(), on the host names of the candidates
DomainLabel(url) ==
    CASE UrlNetloc(url) = <<"dakbedrijf.nl">> -> <<"Dakbedrijf">>
      [] UrlNetloc(url) = <<"roofco.nl">>     -> <<"Roofco">>
      [] OTHER                                -> <<"Nltimes">>

\* lines 186-198
SkippedRecord(url) ==
    [url |-> url, company_name |-> DomainLabel(url), address |-> None,
     emails |-> <<>>, phones |-> <<>>, linkedin_page |-> None,
     staff_size |-> NoStaff, raw |-> "Skipped publication/file page"]

\* what the extraction of lines 200-235 can give for a page: the name, and the
\* pair search_linkedin_company returned (None, None when it raised)
Extractions ==
    {[company_name |-> <<"RoofCo">>, linkedin_page |-> CompanyPage, staff_size |-> 51],
     [company_name |-> None, linkedin_page |-> None, staff_size |-> NoStaff]}

\* lines 237-246
ExtractedRecord(url, e) ==
    [url |-> url, company_name |-> e.company_name, address |-> None,
     emails |-> <<>>, phones |-> <<>>, linkedin_page |-> e.linkedin_page,
     staff_size |-> e.staff_size, raw |-> "Extracted 0 emails & 0 phones"]

\* the values enrich_company(url) can return
EnrichReturns(url) ==
    {NoHtmlRecord(url)} \cup
    (IF PathExcluded(Lower(UrlPath(url))) \/ ExtExcluded(url)
     THEN {SkippedRecord(url)}
     ELSE {ExtractedRecord(url, e) : e \in Extractions})

\* the values search_linkedin_management(title, region) can return
ManagementReturns(title) ==
    {[company |-> [query |-> title, region |-> region], management_team |-> <<>>],
     [company |-> [query |-> title, region |-> region],
      management_team |-> << [name |-> <<"Jane Doe">>, linkedin_url |-> ProfileJane,
                              snippet |-> <<"CEO at RoofCo">>,
                              roles_found |-> <<"CEO">>,
                              source_queries |-> <<RoleQuery("CEO")>>] >>]}

----------------------------------------------------------------------------
(* start_crawler *)

\* the candidates crawl_companies can return
Candidates ==
    {[url |-> l, title |-> clean_company_name(TitleFor(l)), snippet |-> <<"dakdekker">>] :
        l \in {LinkContact, LinkHome, LinkNewsPort}}

RECURSIVE Lists(_, _)
Lists(S, n) ==
    IF n = 0 THEN {<<>>}
    ELSE LET shorter == Lists(S, n - 1)
         IN  shorter \cup {Append(l, x) : l \in {t \in shorter : Len(t) = n - 1}, x \in S}

\* the lists crawl_companies can return: no URL twice
CrawlReturns ==
    {l \in Lists(Candidates, MaxCompanies) :
        \A i, j \in 1..Len(l) : i # j => l[i].url # l[j].url}

\* payloads of the queue "jobs"
Payloads ==
    {[jobId |-> <<"64f0c0ffee">>, industry |-> <<"roofing">>, region |-> <<"Netherlands">>],
     [jobId |-> <<"job-1">>, industry |-> <<"roofing">>, region |-> None]}

NoDoc == [status |-> "none", raw |-> <<>>, results |-> <<>>]

\* EnrichedAppend that leaves out a candidate whose enrichment raised
EnrichedAppendIfEnriched(list, c, site, linkedin) ==
    IF site = EmptyDict THEN list
    ELSE Append(list, [url |-> c.url, title |-> c.title, snippet |-> c.snippet,
                       site |-> site, linkedin |-> linkedin])

\* line 87: enriched.append({**c, "site": site_info, "linkedin": linkedin_info})
EnrichedAppend(list, c, site, linkedin) ==
    Append(list, [url |-> c.url, title |-> c.title, snippet |-> c.snippet,
                  site |-> site, linkedin |-> linkedin])

WorkInit ==
    /\ wpc = "poll"
    /\ data = [jobId |-> None, industry |-> None, region |-> None]
    /\ wcompanies = <<>>
    /\ widx = 0
    /\ site_info = EmptyDict
    /\ enriched = <<>>
    /\ store = NoDoc

WorkIdle ==
    /\ wpc = "idle"
    /\ data = [jobId |-> None, industry |-> None, region |-> None]
    /\ wcompanies = <<>>
    /\ widx = 0
    /\ site_info = EmptyDict
    /\ enriched = <<>>
    /\ store = NoDoc

\* lines 43-51: brpop times out, or Redis fails (sleep 2): poll again
WorkNoJob ==
    /\ wpc = "poll"
    /\ UNCHANGED workVars
    /\ UNCHANGED notWork

\* lines 44-61: a job is popped and its payload parsed; the job has an id of
\* its own, so the collection has no document for it yet
WorkTakeJob ==
    /\ wpc = "poll"
    /\ data' \in Payloads
    /\ store' = NoDoc
    /\ wpc' = "discover"
    /\ UNCHANGED <<wcompanies, widx, site_info, enriched>>
    /\ UNCHANGED notWork

\* line 64: data["region"] of a payload without region raises KeyError, and
\* crawl_companies raises ValueError without credentials: the worker dies
WorkDiscoverRaises ==
    /\ wpc = "discover"
    /\ wpc' = "crashed"
    /\ UNCHANGED <<data, wcompanies, widx, site_info, enriched, store>>
    /\ UNCHANGED notWork

\* line 64: crawl_companies returns a list
WorkDiscover ==
    /\ wpc = "discover"
    /\ data.region # None
    /\ wcompanies' \in CrawlReturns
    /\ wpc' = "save_raw"
    /\ UNCHANGED <<data, widx, site_info, enriched, store>>
    /\ UNCHANGED notWork

\* the enrichment loop starts without the first update_one
WorkSaveRawSkipped ==
    /\ wpc = "save_raw"
    /\ enriched' = <<>>
    /\ widx' = 1
    /\ wpc' = "enrich"
    /\ UNCHANGED <<data, wcompanies, site_info, store>>
    /\ UNCHANGED notWork

\* lines 67-75: the first update_one, then the enrichment loop starts
WorkSaveRaw ==
    /\ wpc = "save_raw"
    /\ store' = [store EXCEPT !.status = "crawled", !.raw = wcompanies]
    /\ enriched' = <<>>
    /\ widx' = 1
    /\ wpc' = "enrich"
    /\ UNCHANGED <<data, wcompanies, site_info>>
    /\ UNCHANGED notWork

\* lines 67-71 and 90-94: update_one raises (the store is unreachable): the
\* worker dies
WorkStoreFails ==
    /\ wpc \in {"save_raw", "save_done"}
    /\ wpc' = "crashed"
    /\ UNCHANGED <<data, wcompanies, widx, site_info, enriched, store>>
    /\ UNCHANGED notWork

\* lines 76-80: enrich_company returns a record, or raises and site_info stays {}
WorkEnrichSite ==
    /\ wpc = "enrich"
    /\ widx <= Len(wcompanies)
    /\ site_info' \in EnrichReturns(wcompanies[widx].url) \cup {EmptyDict}
    /\ wpc' = "linkedin"
    /\ UNCHANGED <<data, wcompanies, widx, enriched, store>>
    /\ UNCHANGED notWork

\* lines 82-87: the management lookup returns a dict, or raises and linkedin_info
\* stays {}; then the record of the candidate is appended
WorkLinkedin ==
    /\ wpc = "linkedin"
    /\ \E linkedin_info \in ManagementReturns(wcompanies[widx].title) \cup {EmptyDict} :
          enriched' = EnrichedAppend(enriched, wcompanies[widx], site_info, linkedin_info)
    /\ widx' = widx + 1
    /\ site_info' = EmptyDict
    /\ wpc' = "enrich"
    /\ UNCHANGED <<data, wcompanies, store>>
    /\ UNCHANGED notWork

\* line 75: the enrichment loop is over
WorkEnrichDone ==
    /\ wpc = "enrich"
    /\ widx > Len(wcompanies)
    /\ wpc' = "save_done"
    /\ UNCHANGED <<data, wcompanies, widx, site_info, enriched, store>>
    /\ UNCHANGED notWork

\* lines 90-96: the second update_one, then back to the queue; the locals of
\* this turn of the loop are dead from here on
WorkSaveDone ==
    /\ wpc = "save_done"
    /\ store' = [store EXCEPT !.status = "done",
                              !.results = IF enriched # <<>> THEN enriched
                                          ELSE wcompanies]
    /\ wpc' = "poll"
    /\ data' = [jobId |-> None, industry |-> None, region |-> None]
    /\ wcompanies' = <<>>
    /\ widx' = 0
    /\ enriched' = <<>>
    /\ UNCHANGED site_info
    /\ UNCHANGED notWork

WorkNext ==
    \/ WorkNoJob
    \/ WorkTakeJob
    \/ WorkDiscoverRaises
    \/ WorkDiscover
    \/ WorkSaveRaw
    \/ WorkStoreFails
    \/ WorkEnrichSite
    \/ WorkLinkedin
    \/ WorkEnrichDone
    \/ WorkSaveDone

----------------------------------------------------------------------------
(* enrich_company: the extraction of emails, phones, name and address.     *)
(* The text the phone pattern scans is a sequence of single characters.    *)

Digits == {"0", "1", "2", "3", "4", "5", "6", "7", "8", "9"}

\* \s, of the characters the texts use
Spaces == {" "}

\* the character at position i of s, "" past the end
CharAt(s, i) == IF i \in 1..Len(s) THEN s[i] ELSE ""

\* \d{n} matches at position i
DigitsAt(s, i, n) == \A k \in 0..(n - 1) : CharAt(s, i + k) \in Digits

\* PHONE_REGEX, first alternative, piece by piece from the right; each operator
\* gives the end of the match (the position after it) or 0, trying what the
\* greedy quantifier tries first and backtracking when the rest fails
MatchDigits67(s, i) ==
    IF DigitsAt(s, i, 7) THEN i + 7
    ELSE IF DigitsAt(s, i, 6) THEN i + 6
    ELSE 0

\* [\s\-]?\d{6,7}
MatchSep(s, i) ==
    IF CharAt(s, i) \in Spaces \cup {"-"} /\ MatchDigits67(s, i + 1) # 0
    THEN MatchDigits67(s, i + 1)
    ELSE MatchDigits67(s, i)

\* \d{1,2}[\s\-]?\d{6,7}
MatchDigits12(s, i) ==
    IF DigitsAt(s, i, 2) /\ MatchSep(s, i + 2) # 0 THEN MatchSep(s, i + 2)
    ELSE IF DigitsAt(s, i, 1) THEN MatchSep(s, i + 1)
    ELSE 0

\* \s?\d{1,2}[\s\-]?\d{6,7}
MatchSpace2(s, i) ==
    IF CharAt(s, i) \in Spaces /\ MatchDigits12(s, i + 1) # 0
    THEN MatchDigits12(s, i + 1)
    ELSE MatchDigits12(s, i)

\* (?:\(0\))?\s?\d{1,2}[\s\-]?\d{6,7}
MatchTrunk(s, i) ==
    IF /\ CharAt(s, i) = "(" /\ CharAt(s, i + 1) = "0" /\ CharAt(s, i + 2) = ")"
       /\ MatchSpace2(s, i + 3) # 0
    THEN MatchSpace2(s, i + 3)
    ELSE MatchSpace2(s, i)

\* \+31\s?(?:\(0\))?\s?\d{1,2}[\s\-]?\d{6,7}
MatchInternational(s, i) ==
    IF CharAt(s, i) = "+" /\ CharAt(s, i + 1) = "3" /\ CharAt(s, i + 2) = "1"
    THEN IF CharAt(s, i + 3) \in Spaces /\ MatchTrunk(s, i + 4) # 0
         THEN MatchTrunk(s, i + 4)
         ELSE MatchTrunk(s, i + 3)
    ELSE 0

\* 0\d{9}
MatchNational(s, i) ==
    IF CharAt(s, i) = "0" /\ DigitsAt(s, i + 1, 9) THEN i + 10 ELSE 0

\* PHONE_REGEX at position i: the first alternative that matches
PHONE_REGEX(s, i) ==
    IF MatchInternational(s, i) # 0 THEN MatchInternational(s, i)
    ELSE MatchNational(s, i)

\* where the next match of PHONE_REGEX starts, at or after i; Len(s) + 1 if nowhere
RECURSIVE NextMatch(_, _)
NextMatch(s, i) ==
    IF i > Len(s) THEN Len(s) + 1
    ELSE IF PHONE_REGEX(s, i) # 0 THEN i
    ELSE NextMatch(s, i + 1)

\* clean_dutch_phone, lines 24-30
clean_dutch_phone(ph) ==
    LET cleaned == SelectSeq(ph, LAMBDA c : c \in Digits \cup {"+"})
    IN  IF /\ Len(cleaned) >= 3 /\ SubSeq(cleaned, 1, 3) = <<"+", "3", "1">>
           /\ 11 <= Len(cleaned) /\ Len(cleaned) <= 12
        THEN cleaned
        ELSE IF Len(cleaned) = 10 /\ cleaned[1] = "0" THEN cleaned
        ELSE None

\* the numbers the texts are made of
PhoneTrunk    == <<"+", "3", "1", " ", "(", "0", ")", "2", "0", " ",
                   "1", "2", "3", "4", "5", "6", "7">>
PhonePlain    == <<"+", "3", "1", " ", "2", "0", "-", "1", "2", "3", "4", "5", "6", "7">>
PhoneNational == <<"0", "2", "0", "1", "2", "3", "4", "5", "6", "7">>
PhoneShort    == <<"1", "2", "3", "4", "5">>

PhonePieces == {PhoneTrunk, PhonePlain, PhoneNational, PhoneShort}

\* the texts with n of the pieces, each followed by ";"
RECURSIVE TextsOf(_)
TextsOf(n) ==
    IF n = 0 THEN {<<>>}
    ELSE {t \o p \o <<";">> : t \in TextsOf(n - 1), p \in PhonePieces}

PhoneTexts == UNION {TextsOf(n) : n \in 0..MaxTextPieces}

\* the matches of email_pattern in the content, in document order (line 201-202)
MailMatches == <<"info@roofco.nl", "sales@roofco.nl", "jan@roofco.nl",
                 "piet@roofco.nl", "hr@roofco.nl", "pers@roofco.nl">>

MailLists == {<<>>,
              <<"info@roofco.nl", "sales@roofco.nl", "info@roofco.nl">>,
              MailMatches}

\* the slice [:5] of line 202
EmailCap == 5

Range(s) == {s[i] : i \in 1..Len(s)}

Take(s, n) == SubSeq(s, 1, IF Len(s) < n THEN Len(s) ELSE n)

\* list(S) of a set S of str: the order is that of the hash table, which
\* depends on the hash seed of the process, so any order can come out
RECURSIVE Orders(_)
Orders(S) ==
    IF S = {} THEN {<<>>}
    ELSE UNION {{<<x>> \o o : o \in Orders(S \ {x})} : x \in S}

\* a key the JSON object does not have
Absent == <<"absent">>

\* the application/ld+json blocks of the pages: type is "@type" of the parsed
\* object, "array" for JSON that is no object, "malformed" for text json.loads
\* rejects; address is the list of streetAddress, postalCode, addressLocality
\* and addressCountry when it is an object
BlockAcme ==
    [type |-> "Organization", name |-> <<"Acme BV">>,
     address |-> << <<"Mainstraat 1">>, <<"1000AA">>, <<"Amsterdam">>, <<"NL">> >>]
BlockOther ==
    [type |-> "LocalBusiness", name |-> <<"Other BV">>,
     address |-> << <<"Zijstraat 2">>, Absent, <<>>, <<"NL">> >>]
BlockNoName ==
    [type |-> "Organization", name |-> Absent, address |-> <<"Mainstraat 1, Amsterdam">>]
BlockWebSite ==
    [type |-> "WebSite", name |-> <<"Acme blog">>, address |-> Absent]
BlockMalformed ==
    [type |-> "malformed", name |-> Absent, address |-> Absent]

Blocks == {BlockAcme, BlockOther, BlockNoName, BlockWebSite, BlockMalformed}

\* isinstance(addr, dict)
IsDict(addr) == Len(addr) = 4

\* ", ".join(filter(None, fields)), lines 217-222
RECURSIVE JoinComma(_)
JoinComma(fields) ==
    IF fields = <<>> THEN <<>>
    ELSE LET rest == JoinComma(Tail(fields))
             f    == IF Head(fields) = Absent THEN None ELSE Head(fields)
         IN  IF ~Truthy(f) THEN rest
             ELSE IF rest = <<>> THEN f
             ELSE f \o <<", ">> \o rest

\* line 213
AcceptedBlock(b) == b.type \in {"LocalBusiness", "Organization"}

\* lines 211-224 for one block, on st = [name, address]
TakeBlock(st, b) ==
    IF AcceptedBlock(b)
    THEN [name    |-> IF b.name = Absent THEN st.name ELSE b.name,
          address |-> IF IsDict(b.address) THEN JoinComma(b.address) ELSE st.address]
    ELSE st

\* soup.title.string.strip() of the pages, None for a page without <title>
PageTitles == {None, <<"Dakdekker Amsterdam", " | ", "RoofCo">>}

\* what search_linkedin_company gives for the page (None, None when it raised)
Lookups == {[linkedin_page |-> CompanyPage, staff_size |-> 51],
            [linkedin_page |-> None, staff_size |-> NoStaff]}

Html == <<"<html>">>

NewPage(url, html, text, mails, blocks, title, lookup) ==
    [url |-> url, html |-> html, text |-> text, mails |-> mails, blocks |-> blocks,
     title |-> title, lookup |-> lookup]

NoLookup == [linkedin_page |-> None, staff_size |-> NoStaff]

\* the pages: safe_fetch gave nothing, a page of the blog, pages with phone
\* numbers, pages with email addresses, pages with ld+json blocks
Pages ==
    {NewPage(LinkContact, h, <<>>, <<>>, <<>>, None, NoLookup) : h \in {None, <<>>}}
    \cup {NewPage(LinkBlog, Html, <<>>, <<>>, <<>>, None, NoLookup)}
    \cup {NewPage(LinkContact, Html, t, <<>>, <<>>, None, NoLookup) : t \in PhoneTexts}
    \cup {NewPage(LinkContact, Html, <<>>, m, <<>>, None, NoLookup) : m \in MailLists}
    \cup {NewPage(LinkContact, Html, <<>>, <<>>, b, t, l) :
             b \in Lists(Blocks, MaxBlocks), t \in PageTitles, l \in Lookups}

\* the record of lines 237-246
Extracted(url, name, address, emails, phones, lookup) ==
    [url |-> url, company_name |-> name, address |-> address, emails |-> emails,
     phones |-> phones, linkedin_page |-> lookup.linkedin_page,
     staff_size |-> lookup.staff_size,
     raw |-> "Extracted " \o ToString(Len(emails)) \o " emails & "
             \o ToString(Len(phones)) \o " phones"]

\* enrich_company(url) is called
ExtractInit ==
    /\ xpc = "fetch"
    /\ page \in Pages
    /\ xemails = <<>>
    /\ xpos = 1
    /\ raw_phones = <<>>
    /\ xphones = <<>>
    /\ xbi = 1
    /\ xname = None
    /\ xaddress = None
    /\ xout = EmptyDict
    /\ xrun = 1
    /\ xprev = EmptyDict

\* enrich_company is not called
ExtractIdle ==
    /\ xpc = "idle"
    /\ page = EmptyDict
    /\ xemails = <<>>
    /\ xpos = 1
    /\ raw_phones = <<>>
    /\ xphones = <<>>
    /\ xbi = 1
    /\ xname = None
    /\ xaddress = None
    /\ xout = EmptyDict
    /\ xrun = 1
    /\ xprev = EmptyDict

\* line 188
SkipPage(url) == PathExcluded(Lower(UrlPath(url))) \/ ExtExcluded(url)

\* lines 172-183: safe_fetch gave None or an empty body
ExtractNoHtml ==
    /\ xpc = "fetch"
    /\ ~Truthy(page.html)
    /\ xout' = NoHtmlRecord(page.url)
    /\ xpc' = "returned"
    /\ UNCHANGED <<page, xemails, xpos, raw_phones, xphones, xbi, xname, xaddress,
                   xrun, xprev>>
    /\ UNCHANGED notExtract

\* lines 185-198: a publication or a file is not extracted
ExtractSkipped ==
    /\ xpc = "fetch"
    /\ Truthy(page.html)
    /\ SkipPage(page.url)
    /\ xout' = SkippedRecord(page.url)
    /\ xpc' = "returned"
    /\ UNCHANGED <<page, xemails, xpos, raw_phones, xphones, xbi, xname, xaddress,
                   xrun, xprev>>
    /\ UNCHANGED notExtract

\* lines 200-202: emails = list(set(findall))[:5]
ExtractEmails ==
    /\ xpc = "fetch"
    /\ Truthy(page.html)
    /\ ~SkipPage(page.url)
    /\ \E order \in Orders(Range(page.mails)) : xemails' = Take(order, EmailCap)
    /\ xpc' = "scan"
    /\ UNCHANGED <<page, xpos, raw_phones, xphones, xbi, xname, xaddress, xout,
                   xrun, xprev>>
    /\ UNCHANGED notExtract

\* line 205: findall takes the next match of PHONE_REGEX and goes on after it
ExtractScanMatch ==
    /\ xpc = "scan"
    /\ NextMatch(page.text, xpos) <= Len(page.text)
    /\ LET i == NextMatch(page.text, xpos)
           e == PHONE_REGEX(page.text, i)
       IN  /\ raw_phones' = Append(raw_phones, SubSeq(page.text, i, e - 1))
           /\ xpos' = e
    /\ UNCHANGED <<xpc, page, xemails, xphones, xbi, xname, xaddress, xout, xrun, xprev>>
    /\ UNCHANGED notExtract

\* line 206: no further match; phones = list({cleaned numbers that are not None})
ExtractPhones ==
    /\ xpc = "scan"
    /\ NextMatch(page.text, xpos) > Len(page.text)
    /\ \E order \in Orders({clean_dutch_phone(ph) : ph \in Range(raw_phones)} \ {None}) :
          xphones' = order
    /\ xpc' = "blocks"
    /\ UNCHANGED <<page, xemails, xpos, raw_phones, xbi, xname, xaddress, xout,
                   xrun, xprev>>
    /\ UNCHANGED notExtract

\* lines 210-224: the next ld+json block
ExtractBlock ==
    /\ xpc = "blocks"
    /\ xbi <= Len(page.blocks)
    /\ LET st == TakeBlock([name |-> xname, address |-> xaddress], page.blocks[xbi])
       IN  /\ xname' = st.name
           /\ xaddress' = st.address
    /\ xbi' = xbi + 1
    /\ UNCHANGED <<xpc, page, xemails, xpos, raw_phones, xphones, xout, xrun, xprev>>
    /\ UNCHANGED notExtract

\* lines 226-230: without a name from the blocks, the cleaned title of the page
ExtractName ==
    /\ xpc = "blocks"
    /\ xbi > Len(page.blocks)
    /\ xname' = IF ~Truthy(xname) /\ page.title # None
                THEN clean_company_name(page.title)
                ELSE xname
    /\ xpc' = "lookup"
    /\ UNCHANGED <<page, xemails, xpos, raw_phones, xphones, xbi, xaddress, xout,
                   xrun, xprev>>
    /\ UNCHANGED notExtract

\* lines 232-246: the company-page lookup, and the record is returned
ExtractReturn ==
    /\ xpc = "lookup"
    /\ xout' = Extracted(page.url, xname, xaddress, xemails, xphones, page.lookup)
    /\ xpc' = "returned"
    /\ UNCHANGED <<page, xemails, xpos, raw_phones, xphones, xbi, xname, xaddress,
                   xrun, xprev>>
    /\ UNCHANGED notExtract

\* the same url is enriched once more (by a worker process started later), and
\* the page has not changed
ExtractAgain ==
    /\ xpc = "returned"
    /\ xrun = 1
    /\ xprev' = xout
    /\ xrun' = 2
    /\ xpc' = "fetch"
    /\ xemails' = <<>>
    /\ xpos' = 1
    /\ raw_phones' = <<>>
    /\ xphones' = <<>>
    /\ xbi' = 1
    /\ xname' = None
    /\ xaddress' = None
    /\ xout' = EmptyDict
    /\ UNCHANGED page
    /\ UNCHANGED notExtract

ExtractNext ==
    \/ ExtractNoHtml
    \/ ExtractSkipped
    \/ ExtractEmails
    \/ ExtractScanMatch
    \/ ExtractPhones
    \/ ExtractBlock
    \/ ExtractName
    \/ ExtractReturn
    \/ ExtractAgain

----------------------------------------------------------------------------
(* The health server: HealthHandler and run_health_server, a daemon thread *)
(* started before the main loop (main.py 28-38, 99-104)                    *)

\* lines 30-32: the response of do_GET
HealthResponse == [status |-> 200, body |-> "Worker running"]

\* line 101: the thread is started, the server is not bound yet
HealthInit ==
    /\ hsrv = "starting"
    /\ hbound = FALSE
    /\ hsent = 0
    /\ hpending = 0
    /\ hanswered = <<>>

\* the process is not running
HealthIdle ==
    /\ hsrv = "idle"
    /\ hbound = FALSE
    /\ hsent = 0
    /\ hpending = 0
    /\ hanswered = <<>>

\* lines 35-38: the port is read, the server bound, serve_forever entered
HealthServe ==
    /\ hsrv = "starting"
    /\ hsrv' = "serving"
    /\ hbound' = TRUE
    /\ UNCHANGED <<hsent, hpending, hanswered>>
    /\ UNCHANGED notHealth

\* lines 35-36: int() of PORT or the bind raised; the thread ends, the main
\* loop goes on
HealthServeFails ==
    /\ hsrv = "starting"
    /\ hsrv' = "failed"
    /\ UNCHANGED <<hbound, hsent, hpending, hanswered>>
    /\ UNCHANGED notHealth

\* a client sends GET: a serving server accepts the connection, otherwise the
\* connection is refused
HealthGet ==
    /\ hsent < MaxGets
    /\ hsent' = hsent + 1
    /\ hpending' = IF hsrv = "serving" THEN hpending + 1 ELSE hpending
    /\ UNCHANGED <<hsrv, hbound, hanswered>>
    /\ UNCHANGED notHealth

\* lines 29-32: do_GET answers an accepted request
HealthAnswer ==
    /\ hsrv = "serving"
    /\ hpending > 0
    /\ hanswered' = Append(hanswered, HealthResponse)
    /\ hpending' = hpending - 1
    /\ UNCHANGED <<hsrv, hbound, hsent>>
    /\ UNCHANGED notHealth

\* lines 101-104: start_crawler raised, the main thread ends and the
\* interpreter exits without waiting for the daemon thread; what the server
\* had accepted is dropped
HealthProcessExit ==
    /\ wpc = "crashed"
    /\ hsrv # "killed"
    /\ hsrv' = "killed"
    /\ hpending' = 0
    /\ UNCHANGED <<hbound, hsent, hanswered>>
    /\ UNCHANGED notHealth

HealthNext ==
    \/ HealthServe
    \/ HealthServeFails
    \/ HealthGet
    \/ HealthAnswer
    \/ HealthProcessExit

----------------------------------------------------------------------------
(* The specifications: one function at a time, the others idle *)

InitCrawl == CrawlInit /\ FetchIdle /\ MgmtIdle /\ CompIdle /\ WorkIdle /\ ExtractIdle /\ HealthIdle

SpecCrawl == InitCrawl /\ [][CrawlNext]_vars

InitFetch == FetchInit /\ CrawlIdle /\ MgmtIdle /\ CompIdle /\ WorkIdle /\ ExtractIdle /\ HealthIdle

SpecFetch == InitFetch /\ [][FetchNext]_vars

InitMgmt == MgmtInit /\ CrawlIdle /\ FetchIdle /\ CompIdle /\ WorkIdle /\ ExtractIdle /\ HealthIdle

SpecMgmt == InitMgmt /\ [][MgmtNext]_vars

InitComp == CompInit /\ CrawlIdle /\ FetchIdle /\ MgmtIdle /\ WorkIdle /\ ExtractIdle /\ HealthIdle

SpecComp == InitComp /\ [][CompNext]_vars

InitWork == WorkInit /\ CrawlIdle /\ FetchIdle /\ MgmtIdle /\ CompIdle /\ ExtractIdle /\ HealthIdle

SpecWork == InitWork /\ [][WorkNext]_vars

InitExtract == ExtractInit /\ CrawlIdle /\ FetchIdle /\ MgmtIdle /\ CompIdle /\ WorkIdle /\ HealthIdle

SpecExtract == InitExtract /\ [][ExtractNext]_vars

\* the worker process: the main loop and the health server thread
InitProcess ==
    HealthInit /\ WorkInit /\ CrawlIdle /\ FetchIdle /\ MgmtIdle /\ CompIdle /\ ExtractIdle

ProcessNext == WorkNext \/ HealthNext

SpecProcess == InitProcess /\ [][ProcessNext]_vars

----------------------------------------------------------------------------
(* Claims about crawl_companies *)

\* the request issued by a step, when the step issues one
Issued == requests' # requests

\* C1: the list returned by crawl_companies holds no URL twice, also when the
\* same URL comes back on different pages or for different query variations.
C1_NoDuplicateUrl ==
    cpc = "returned" =>
        \A i, j \in 1..Len(result) : i # j => result[i].url # result[j].url

\* C1 witness: the run returned two candidates, below its target of three, and
\* the last response, a one-item page of the second variation, carried the URL
\* of the first candidate again.
C1_Witness ==
    /\ cpc = "returned"
    /\ limit = 3
    /\ Len(result) = 2
    /\ lastResp.nitems = 1
    /\ requests[Len(requests)][1] = 2
    /\ lastItem.link = result[1].url

\* the exclusion policy as the specification words it: the URL ends in an excluded
\* extension, its path has an excluded-topic segment, or its domain (the host the
\* URL names) ends with an excluded domain
PolicyExcluded(url) ==
    \/ \E ext \in EXCLUDED_EXTENSIONS : EndsWith(url, <<ext>>)
    \/ \E i \in 1..Len(UrlPath(url)) : UrlPath(url)[i] \in EXCLUDED_PATHS
    \/ \E d \in EXCLUDED_DOMAINS : EndsWith(UrlHostname(url), d)

\* C2: no candidate of the returned list has a URL that ends in an excluded
\* document extension, a path with an excluded-topic segment, or a domain that
\* ends with an excluded domain. The code tests the netloc, port included, so a
\* URL of the excluded domain that names a port is accepted.
C2_NoExcludedUrl ==
    cpc = "returned" => \A i \in 1..Len(result) : ~PolicyExcluded(result[i].url)

\* a response that signals rejected credentials, or no response at all
Rejected(resp) ==
    \/ resp.kind = "exception"
    \/ resp.kind = "body" /\ (resp.error \/ resp.status \in {403, 429})

\* C3: after a credential-rejection signal or a transport exception the next
\* request is for the same variation and the same offset. The code moves on:
\* to the next offset after an exception, to the next variation after an error
\* body.
C3_RetrySamePage ==
    [][(Issued /\ Rejected(lastResp')) =>
           (cpc' = "loop" /\ qi' = qi /\ start' = start)]_vars

\* C4: a zero-item response (with or without an error) ends at most the scan of
\* the current variation: while a variation remains, the next request is for the
\* next variation at offset 1, and the run returns only when none remains.
C4_ZeroItemsNextVariation ==
    [][(Issued /\ lastResp'.kind = "body" /\ lastResp'.nitems = 0) =>
           IF qi < Len(variations)
           THEN cpc' = "loop" /\ qi' = qi + 1 /\ start' = 1
           ELSE cpc' = "returned"]_vars

\* C4 witness: an error body without items answered a request of the first
\* variation, and the run stands at the second variation, offset 1.
C4_Witness ==
    /\ cpc = "loop"
    /\ lastResp.kind = "body" /\ lastResp.error /\ lastResp.nitems = 0
    /\ requests[Len(requests)][1] = 1
    /\ qi = 2
    /\ start = 1

\* C5: once the count of accepted candidates reaches limit no request is issued
\* and the accumulated list is returned; when the variations are exhausted first
\* the accumulated list is returned too, and the loops never raise.
C5_StopAtTarget ==
    /\ [](cpc \in {"loop", "items"} => Len(companies) - lastResp.nitems < limit)
    /\ [](cpc = "loop" => Len(companies) < limit)
    /\ [](cpc = "returned" => result = companies)
    /\ [][Len(companies) >= limit => ~Issued]_vars
    /\ [][(cpc \in {"loop", "items"}) => (cpc' # "raised")]_vars

\* C5 witness: the run returned at the target after one request, with requests
\* of the first variation and the whole second variation left unissued.
C5_Witness ==
    /\ cpc = "returned"
    /\ Len(result) >= limit
    /\ requests = << <<1, 1>> >>

\* the other way C5 covers: the variations were exhausted below the target
C5_WitnessExhausted ==
    /\ cpc = "returned"
    /\ Len(result) < limit
    /\ qi = Len(variations)

\* the start offsets of one variation: range(1, max_api_limit + 1, per_page)
Offsets == {1 + per_page * k : k \in 0..(NumPages - 1)}

\* request a comes before request b in the order of the loops
Before(a, b) == a[1] < b[1] \/ (a[1] = b[1] /\ a[2] < b[2])

\* the pages the loops have not left yet, the current one included
PagesLeft == (Len(variations) - qi) * NumPages + (NumPages - (start - 1) \div per_page)

\* a bound on the steps the run still takes: a page costs its request, one
\* step per item and the test of the target
Rank ==
    CASE cpc = "entry" -> Len(variations) * NumPages * (MaxPageItems + 2) + 2
      [] cpc = "loop"  -> PagesLeft * (MaxPageItems + 2) + 1
      [] cpc = "items" -> (PagesLeft - 1) * (MaxPageItems + 2) + pending + 2
      [] OTHER         -> 0

\* C19: crawl_companies always terminates, whatever the search API answers:
\* every request is for a variation of the list and one of its offsets, the
\* requests come in the order of the list and, within a variation, in
\* increasing offset, so no (variation, offset) is asked twice and a variation
\* gets at most one request per offset (10 in the code, NumPages here); and
\* the run ends: while it has not returned or raised it can take a step, and
\* every step lowers the bound Rank on the steps still to come.
C19_CrawlTerminates ==
    /\ [](\A i \in 1..Len(requests) :
             /\ requests[i][1] \in 1..Len(variations)
             /\ requests[i][2] \in Offsets)
    /\ [](\A i \in 1..(Len(requests) - 1) : Before(requests[i], requests[i + 1]))
    /\ [](\A q \in 1..Len(variations) :
             Cardinality({i \in 1..Len(requests) : requests[i][1] = q}) <= NumPages)
    /\ [](Rank >= 0 /\ (Rank = 0 <=> cpc \in {"returned", "raised"}))
    /\ []((cpc \in {"entry", "loop", "items"}) => ENABLED CrawlNext)
    /\ [][Rank' < Rank]_vars

\* C19 witness: every request of the run failed with a transport exception; the
\* run asked every offset of every variation once and returned the empty list.
C19_Witness ==
    /\ cpc = "returned"
    /\ Len(requests) = Len(variations) * NumPages
    /\ lastResp.kind = "exception"
    /\ result = <<>>

\* C20: for limit >= 1 and pages of at most MaxPageItems items (10 in the
\* code), the returned list has at most limit + MaxPageItems - 1 candidates
\* (limit + 9): the target is tested after a whole page, so the list can pass
\* the target, by less than one page.
C20_OvershootBelowOnePage ==
    /\ MaxPageItems <= per_page
    /\ (cpc \in {"loop", "items", "returned"}) => Len(companies) <= limit + MaxPageItems - 1
    /\ cpc = "returned" => Len(result) <= limit + MaxPageItems - 1

\* C20 witness: the run returned more candidates than its target, as many as
\* the bound allows.
C20_Witness ==
    /\ cpc = "returned"
    /\ Len(result) > limit
    /\ Len(result) = limit + MaxPageItems - 1

----------------------------------------------------------------------------
(* Claims about safe_fetch *)

\* C6: safe_fetch makes at most 3 attempts; it returns the content of the first
\* attempt that gets status 200, with no attempt after it, and returns content
\* in no other case; a failed attempt (another status, or an exception) is
\* followed by another attempt while attempts remain; after 3 failed attempts it
\* returns None.
C6_FetchContract ==
    /\ Len(flog) <= 3
    /\ \A i \in 1..(Len(flog) - 1) : flog[i].status # 200
    /\ fpc = "returned" =>
          IF flog # <<>> /\ flog[Len(flog)].status = 200
          THEN fres = flog[Len(flog)].body
          ELSE fres = None /\ Len(flog) = 3

\* C6 witness: the third attempt got status 200, after an attempt that got
\* another status and one that raised, and its content was returned.
C6_Witness ==
    /\ fpc = "returned"
    /\ Len(flog) = 3
    /\ {flog[1].status, flog[2].status} = {0, 404}
    /\ flog[3].status = 200
    /\ fres = flog[3].body
    /\ fres # <<>>

\* the other outcome C6 covers: three failed attempts, None returned
C6_WitnessFailure ==
    /\ fpc = "returned"
    /\ fres = None
    /\ Len(flog) = 3

\* C15: between any two consecutive attempts of one fetch the fixed delay of 2
\* time units elapses, whether the earlier attempt got a status other than 200
\* or raised. The code sleeps in the except branch only: after a status other
\* than 200 the next attempt starts at once.
C15_DelayBetweenAttempts ==
    \A i \in 1..(Len(flog) - 1) : flog[i].slept = 2

----------------------------------------------------------------------------
(* Claims about search_linkedin_management *)

\* a profile URL with its query string stripped: the canonical key
QueryStripped(url) == SubSeq(url, 1, FirstIn(url, {"?"}, 1) - 1)

\* the roles, in query order, whose query returned a result with canonical URL key
RolesOffering(key) == SelectSeq(roles, LAMBDA r : <<r, key>> \in offers)

\* the entries of the returned team whose canonical key is key
EntriesOf(key) == {i \in 1..Len(team) : QueryStripped(team[i].linkedin_url) = key}

\* C7: when the queries of two different roles each return a result with the
\* same canonical profile URL, management_team has exactly one entry for that
\* URL, its roles_found lists both roles in query order and its source_queries
\* holds both queries. The code skips the second result (its key is already in
\* seen_urls), so roles_found holds the first role only.
C7_RolesOfOneProfileMerged ==
    mpc = "returned" =>
        \A o \in offers :
            /\ Cardinality(EntriesOf(o[2])) = 1
            /\ \A i \in EntriesOf(o[2]) :
                  /\ team[i].roles_found = RolesOffering(o[2])
                  /\ team[i].source_queries =
                         [k \in 1..Len(RolesOffering(o[2])) |->
                             RoleQuery(RolesOffering(o[2])[k])]

\* C8: the returned management_team has no two entries with the same canonical
\* key (linkedin_url with the query string stripped).
C8_NoDuplicateProfile ==
    mpc = "returned" =>
        \A i, j \in 1..Len(team) :
            i # j => QueryStripped(team[i].linkedin_url) # QueryStripped(team[j].linkedin_url)

\* C8 witness: two profiles were returned, and one canonical URL had come back
\* for the first role and again for the second.
C8_Witness ==
    /\ mpc = "returned"
    /\ Len(team) = 2
    /\ \E o \in offers : {<<roles[1], o[2]>>, <<roles[2], o[2]>>} \subseteq offers

\* C16: the query of every role is issued at least once and at most attempts
\* times; it is issued again, after the backoff of 1 time unit, exactly when
\* the answer before had no items and attempts remain; no query follows an
\* answer with items; and the item loop of the role runs over the answer of the
\* last query issued.
C16_RoleQueryRetries ==
    /\ [](/\ Len(mqueries) <= attempts
          /\ \A i \in 1..Len(mqueries) :
                /\ mqueries[i].role = roles[ri]
                /\ mqueries[i].attempt = i - 1
          /\ \A i \in 1..(Len(mqueries) - 1) :
                mqueries[i].nitems = 0 /\ mqueries[i].slept = 1)
    /\ [](mpc = "query" =>
             /\ Len(mqueries) = mattempt
             /\ mattempt < attempts
             /\ mattempt > 0 => /\ mqueries[mattempt].nitems = 0
                                /\ mqueries[mattempt].slept = 1)
    /\ []((mpc \in {"items", "consolidate", "returned"}) =>
             /\ Len(mqueries) >= 1
             /\ mqueries[Len(mqueries)].nitems > 0 \/ Len(mqueries) = attempts
             /\ mqueries[Len(mqueries)].slept = 0
             /\ mpending <= mqueries[Len(mqueries)].nitems)
    /\ []((mpc \in {"consolidate", "returned"}) => ri = Len(roles))
    /\ [][(mpc = "query" /\ mpc' = "items") =>
              mpending' = mqueries'[Len(mqueries')].nitems]_vars

\* C16 witness: the second role is in its item loop after two queries, the
\* first answered without items, the second with items.
C16_Witness ==
    /\ mpc = "items"
    /\ ri = 2
    /\ attempts = 2
    /\ Len(mqueries) = 2
    /\ mqueries[1].nitems = 0
    /\ mqueries[2].nitems > 0
    /\ mpending = mqueries[2].nitems

\* the other case C16 covers: the attempts ran out on answers without items
C16_WitnessExhausted ==
    /\ mpc = "items"
    /\ attempts = 2
    /\ Len(mqueries) = 2
    /\ mqueries[2].nitems = 0

----------------------------------------------------------------------------
(* Claims about start_crawler *)

\* C9: for a job whose discovery returned a list, the results stored with status
\* "done" hold exactly one record per discovered candidate, in discovery order,
\* whatever enrich_company and the management lookup did for each candidate;
\* nothing they do ends the job.
C9_EveryCandidateRecorded ==
    /\ []((wpc \in {"enrich", "linkedin", "save_done"}) => store.raw = wcompanies)
    /\ [](store.status = "done" =>
             /\ Len(store.results) = Len(store.raw)
             /\ \A i \in 1..Len(store.raw) :
                   /\ store.results[i].url = store.raw[i].url
                   /\ store.results[i].title = store.raw[i].title
                   /\ store.results[i].snippet = store.raw[i].snippet)
    /\ [][(wpc \in {"enrich", "linkedin"}) => (wpc' # "crashed")]_vars

\* C9 witness: a job of two candidates is stored as done; for the first one
\* enrich_company and the management lookup both raised, for the second one
\* the page could not be fetched.
C9_Witness ==
    /\ store.status = "done"
    /\ Len(store.results) = 2
    /\ store.results[1].site = EmptyDict
    /\ store.results[1].linkedin = EmptyDict
    /\ store.results[2].site # EmptyDict
    /\ store.results[2].site.raw = "no_html"

\* C18: the events of a job are strictly ordered: discovery completes; the
\* store is written with status "crawled" and the raw list; the candidates are
\* enriched one at a time in list order, candidate k + 1 only after the record
\* of candidate k is appended; then the store is written with status "done".
\* No enrichment call comes before the "crawled" write, and the "done" write
\* comes only after the last candidate.
C18_JobEventsOrdered ==
    /\ []((wpc \in {"enrich", "linkedin", "save_done"}) =>
             store.status = "crawled" /\ store.raw = wcompanies)
    /\ []((wpc \in {"enrich", "linkedin"}) =>
             /\ Len(enriched) = widx - 1
             /\ \A i \in 1..Len(enriched) : enriched[i].url = wcompanies[i].url)
    /\ []((wpc \in {"poll", "discover", "save_raw"}) => enriched = <<>>)
    /\ [][(store'.status = "crawled" /\ store.status # "crawled") =>
              (wpc = "save_raw" /\ store.status = "none" /\ enriched' = <<>>)]_vars
    /\ [][(enriched' # enriched /\ enriched' # <<>>) =>
              (store.status = "crawled" /\ Len(enriched') = Len(enriched) + 1)]_vars
    /\ [][(store'.status = "done" /\ store.status # "done") =>
              (/\ wpc = "save_done"
               /\ store.status = "crawled"
               /\ Len(enriched) = Len(wcompanies)
               /\ store'.raw = store.raw)]_vars

\* C18 witness: the second candidate of a job is about to be enriched, the
\* record of the first is appended and the store still says "crawled".
C18_Witness ==
    /\ wpc = "enrich"
    /\ widx = 2
    /\ Len(wcompanies) = 2
    /\ Len(enriched) = 1
    /\ enriched[1].url = wcompanies[1].url
    /\ store.status = "crawled"

\* and the job went on to its "done" write, with both records
C18_WitnessDone ==
    /\ wpc = "poll"
    /\ store.status = "done"
    /\ Len(store.raw) = 2
    /\ Len(store.results) = 2
    /\ store.results[2].url = store.raw[2].url

----------------------------------------------------------------------------
(* Claims about search_linkedin_company *)

\* the link of an item is a company page
IsCompanyPage(item) ==
    /\ item.link # None
    /\ IsInfix(<<"linkedin.com", "/company">>, item.link)

\* C10: search_linkedin_company never raises: whatever the search gives (a
\* failure, an error status, an error body, no items, items without link or
\* snippet, no credentials), it returns the link and staff size of the first
\* item, in order, whose link is a company page, or None, None. The code raises
\* TypeError on an item without link ('in' on None).
C10_CompanyLookupTotal ==
    /\ kpc # "raised"
    /\ kpc = "returned" =>
          LET hits == {i \in 1..Len(kscanned) : IsCompanyPage(kscanned[i])}
          IN  IF hits = {}
              THEN kres = [url |-> None, staff |-> NoStaff]
              ELSE LET first == CHOOSE i \in hits : \A j \in hits : i <= j
                   IN  /\ kres.url = _normalize_linkedin_url(kscanned[first].link)
                       /\ kres.staff = StaffSize(Get(kscanned[first].snippet, <<>>))

----------------------------------------------------------------------------
(* Claims about the extraction of enrich_company *)

\* a number with everything but digits and "+" stripped
Stripped(ph) == SelectSeq(ph, LAMBDA c : c \in Digits \cup {"+"})

\* the extraction of the page ran to its end and returned the record
ExtractionReturned ==
    xpc = "returned" /\ Truthy(page.html) /\ ~SkipPage(page.url)

\* C11: when the text of the page holds the international number with the
\* parenthesized trunk digit, +31 (0)20 1234567, and the leading-zero number,
\* 0201234567, both are in the phones of the returned record, stripped to
\* digits and "+", no number is there twice, and 12345 is not there. The code
\* drops the first: stripped it has 13 characters, and 12 is the most
\* clean_dutch_phone takes.
C11_BothPhoneShapes ==
    ExtractionReturned =>
        /\ (IsInfix(PhoneTrunk, page.text) /\ IsInfix(PhoneNational, page.text)) =>
              /\ Stripped(PhoneTrunk) \in Range(xout.phones)
              /\ Stripped(PhoneNational) \in Range(xout.phones)
        /\ \A i, j \in 1..Len(xout.phones) :
              xout.phones[i] = xout.phones[j] => i = j
        /\ PhoneShort \notin Range(xout.phones)

\* the first block of the page with an accepted type, 0 when there is none
FirstAccepted(blocks) ==
    LET hits == {i \in 1..Len(blocks) : AcceptedBlock(blocks[i])}
    IN  IF hits = {} THEN 0 ELSE CHOOSE i \in hits : \A j \in hits : i <= j

\* C12: company_name and address come from the first ld+json block, in document
\* order, whose type is Organization or LocalBusiness: once the loop is past
\* that block, no later block changes company_name or address, and the record
\* carries the name and the flattened address of that block. The code has no
\* break: every accepted block overwrites what the earlier ones gave.
C12_FirstAcceptedBlockWins ==
    /\ [][(xpc = "blocks" /\ xbi' = xbi + 1 /\ FirstAccepted(page.blocks) \in 1..(xbi - 1))
            => (xname' = xname /\ xaddress' = xaddress)]_vars
    /\ [](ExtractionReturned /\ FirstAccepted(page.blocks) # 0 =>
             LET b == page.blocks[FirstAccepted(page.blocks)]
             IN  /\ b.name # Absent => xout.company_name = b.name
                 /\ IsDict(b.address) => xout.address = JoinComma(b.address))

\* C13: two extractions of the same url with the same page content and the same
\* lookup answer return the same record, the emails list and the phones list
\* included. In the code both lists are made by list(set(...)): their order,
\* and with more than 5 addresses the choice of the 5 kept, follows the hash
\* seed of the process.
C13_ExtractionDeterministic ==
    (xrun = 2 /\ xpc = "returned") => xout = xprev

----------------------------------------------------------------------------
(* Claims about the health server *)

\* C14: once the health server is up, a GET is answered with the fixed 200
\* response whatever the main loop does (polling the queue, in discovery, in
\* enrichment, writing the store, or ended by a failed job): every GET sent is
\* accepted, no accepted GET is dropped, every response is the fixed one, and
\* the handler leaves the state of the pipeline alone. In the code a job that
\* raises ends the main thread, and the process exits with the daemon thread.
C14_HealthAlwaysAnswers ==
    /\ [][(hbound /\ hsent' = hsent + 1) => hpending' = hpending + 1]_vars
    /\ [][hpending' < hpending => hanswered' = Append(hanswered, HealthResponse)]_vars
    /\ [](\A i \in 1..Len(hanswered) : hanswered[i] = HealthResponse)
    /\ [][hanswered' # hanswered => UNCHANGED workVars]_vars

----------------------------------------------------------------------------
(* Claims about _query_google_cse *)

\* the call failed: no response, a status other than 200, or a body that is
\* not JSON
CallFailed(raw) == raw.kind = "exception" \/ raw.status # 200 \/ ~raw.json

\* C17: _query_google_cse never raises and returns the wrapper {items, error};
\* error is not None exactly when the call failed or the body carries an error
\* field, and whenever error is not None, items is empty. The code passes the
\* items of a 200 body on also when that body carries an error field.
C17_ErrorMeansNoItems ==
    (kpc \in {"scan", "returned", "raised"}) =>
        /\ kdata.error <=> (CallFailed(kresp) \/ kresp.error)
        /\ kdata.error => kdata.nitems = 0

====
